---- MODULE Spec2Model ----
(***************************************************************************)
(* Model of geo-rules.py: the batch converter that downloads a ZIP of JSON *)
(* rule files, turns each into a "payload:" text file and cleans up.       *)
(*                                                                         *)
(* Text (str) is a sequence of one-character strings, so that join, line   *)
(* counting and concatenation are computed and not assumed.  A path is a   *)
(* sequence of tokens ("/", "geosite", ".json", ...): substring tests and   *)
(* str.replace work on whole tokens, which no two tokens of the model can  *)
(* form by juxtaposition.                                                  *)
(***************************************************************************)
EXTENDS Naturals, Sequences, FiniteSets

\* ---------------------------------------------------------------- bounds
\* Longest JSON list drawn for a rule field.
MaxListLen == 2
\* Most files in the downloaded archive.
MaxFiles == 3

\* ------------------------------------------------------------------ text
NL == "\n"

\* The str values that occur inside rule files: a plain one, and one with an
\* embedded line break (JSON "b\nc").
Strings == { <<"a">>, <<"b", NL, "c">> }

\* The literal "payload:" of format_to_payload.
PayloadHeader == <<"p", "a", "y", "l", "o", "a", "d", ":">>
\* The literal "  - '" that opens every entry line.
ItemOpen == <<" ", " ", "-", " ", "'">>
\* The literal "+." that format_to_payload puts before a suffix.
SuffixMark == <<"+", ".">>
\* The literal "'" that closes every entry line.
ItemClose == <<"'">>

\* All sequences over S of length at most n.
SeqUpTo(S, n) == UNION { [1..k -> S] : k \in 0..n }

\* str.join with the empty separator.
RECURSIVE JoinEmpty(_)
JoinEmpty(lines) ==
    IF lines = <<>> THEN <<>> ELSE Head(lines) \o JoinEmpty(Tail(lines))

\* str.join with "\n" as the separator.
RECURSIVE JoinNL(_)
JoinNL(lines) ==
    IF lines = <<>> THEN <<>>
    ELSE IF Len(lines) = 1 THEN lines[1]
    ELSE lines[1] \o <<NL>> \o JoinNL(Tail(lines))

\* Number of "\n" characters in a text.
RECURSIVE CountNL(_)
CountNL(text) ==
    IF text = <<>> THEN 0
    ELSE (IF Head(text) = NL THEN 1 ELSE 0) + CountNL(Tail(text))

\* Number of lines of a text, as text.split("\n") counts them.
LineCount(text) == CountNL(text) + 1

\* The first line of a text: everything before its first "\n".
RECURSIVE FirstLine(_)
FirstLine(text) ==
    IF text = <<>> \/ Head(text) = NL THEN <<>>
    ELSE <<Head(text)>> \o FirstLine(Tail(text))

\* ------------------------------------------------------------------ JSON
\* A JSON value is [t, v]: t its Python type after json.load, v a sequence
\* (the characters of a str, the elements of a list, the keys of a dict, the
\* str() of a number or bool, empty for None and for a missing key).
JAbsent == [t |-> "absent", v |-> <<>>]
JNull == [t |-> "null", v |-> <<>>]
JNum == [t |-> "num", v |-> <<"7">>]
JBool == [t |-> "bool", v |-> <<"T", "r", "u", "e">>]
JObj == [t |-> "obj", v |-> << <<"k">> >>]
JStr(s) == [t |-> "str", v |-> s]
JList(l) == [t |-> "list", v |-> l]

\* What one field of a rule object can hold.
FieldValues ==
    {JAbsent, JNull, JNum, JBool, JObj}
      \cup { JStr(s) : s \in Strings }
      \cup { JList(l) : l \in SeqUpTo(Strings, MaxListLen) }

NoRule == [domain |-> JAbsent, domain_suffix |-> JAbsent, ip_cidr |-> JAbsent]

\* A file's content: bytes that are no UTF-8 text ("not_utf8"), text that is
\* no JSON ("malformed"), JSON of the wrong shape, or a rules document whose
\* first rule is the object `rule`.
\*   top_list     []                 no_rules     {}
\*   rules_empty  {"rules": []}      rules_dict   {"rules": {}}
\*   rule_not_obj {"rules": ["x"]}   ok           {"rules": [ {...} ]}
BadShapes == {"not_utf8", "malformed", "top_list", "no_rules", "rules_empty", "rules_dict", "rule_not_obj"}
Doc(kind, rule) == [kind |-> kind, rule |-> rule]
RuleDoc(d, s, i) == Doc("ok", [domain |-> d, domain_suffix |-> s, ip_cidr |-> i])

\* A call's outcome: a value, or the exception it raised.
Ok(val) == [ok |-> TRUE, exc |-> "", val |-> val]
Raise(exc, none) == [ok |-> FALSE, exc |-> exc, val |-> none]

\* load_json: json.load of the file opened as UTF-8; JSONDecodeError on text
\* that is no JSON, UnicodeDecodeError (not handled here) on other bytes.
load_json(doc) ==
    IF doc.kind = "malformed" THEN Raise("JSONDecodeError", Doc("malformed", NoRule))
    ELSE IF doc.kind = "not_utf8" THEN Raise("UnicodeDecodeError", Doc("malformed", NoRule))
    ELSE Ok(doc)

\* dict.get(key, []) followed by the coercion extract_rules applies to
\* domain_suffix only: anything that is no list becomes the empty list.
Get_coerced(rule_field) == IF rule_field.t # "list" THEN JList(<<>>) ELSE rule_field

\* dict.get(key, []) on the rule object.
Get(rule_field) == IF rule_field.t = "absent" THEN JList(<<>>) ELSE rule_field

\* The normalisation without its isinstance(domain_suffix, str) branch.
NormalizeSuffix_no_wrap(raw) ==
    LET domain_suffix == Get(raw)
    IN  IF domain_suffix.t \notin {"list", "str"} THEN JList(<<>>) ELSE domain_suffix

\* The domain_suffix normalisation of extract_rules.
NormalizeSuffix(raw) ==
    LET domain_suffix == Get(raw)
    IN  IF domain_suffix.t = "str" THEN JList(<<domain_suffix.v>>)
        ELSE IF domain_suffix.t # "list" THEN JList(<<>>)
        ELSE domain_suffix

NoRules == [domain |-> JList(<<>>), domain_suffix |-> JList(<<>>), ip_cidr |-> JList(<<>>)]

\* extract_rules: json_data['rules'][0], then the three fields.
extract_rules(json_data) ==
    CASE json_data.kind = "top_list" -> Raise("TypeError", NoRules)
      [] json_data.kind \in {"no_rules", "rules_empty", "rules_dict"} -> Raise("KeyError", NoRules)
      [] json_data.kind = "rule_not_obj" -> Raise("AttributeError", NoRules)
      [] OTHER ->
            Ok([domain |-> Get(json_data.rule.domain),
                domain_suffix |-> NormalizeSuffix(json_data.rule.domain_suffix),
                ip_cidr |-> Get(json_data.rule.ip_cidr)])

\* Whether a Python for-loop can iterate the value.
Iterable(x) == x.t \in {"list", "str", "obj"}

\* The items a for-loop over the value yields, each as the text an f-string
\* renders: the elements of a list, the characters of a str, the keys of a dict.
Iter(x) == IF x.t = "str" THEN [k \in 1..Len(x.v) |-> <<x.v[k]>>] ELSE x.v

\* payload_lines with the ip_cidr loop before the domain_suffix loop.
PayloadLines_ip_first(rules) ==
    <<PayloadHeader>>
      \o [k \in 1..Len(Iter(rules.domain)) |-> ItemOpen \o Iter(rules.domain)[k] \o ItemClose]
      \o [k \in 1..Len(Iter(rules.ip_cidr)) |-> ItemOpen \o Iter(rules.ip_cidr)[k] \o ItemClose]
      \o [k \in 1..Len(Iter(rules.domain_suffix)) |->
            ItemOpen \o SuffixMark \o Iter(rules.domain_suffix)[k] \o ItemClose]

\* payload_lines of format_to_payload, just before the join.
PayloadLines(rules) ==
    <<PayloadHeader>>
      \o [k \in 1..Len(Iter(rules.domain)) |-> ItemOpen \o Iter(rules.domain)[k] \o ItemClose]
      \o [k \in 1..Len(Iter(rules.domain_suffix)) |->
            ItemOpen \o SuffixMark \o Iter(rules.domain_suffix)[k] \o ItemClose]
      \o [k \in 1..Len(Iter(rules.ip_cidr)) |-> ItemOpen \o Iter(rules.ip_cidr)[k] \o ItemClose]

\* format_to_payload: TypeError when a field cannot be iterated.
format_to_payload(rules) ==
    IF Iterable(rules.domain) /\ Iterable(rules.domain_suffix) /\ Iterable(rules.ip_cidr)
    THEN Ok(JoinNL(PayloadLines(rules)))
    ELSE Raise("TypeError", <<>>)

\* ----------------------------------------------------------------- paths
\* Longest path, in tokens, drawn for the routing of process_json_file.
MaxPathLen == 4

\* The tokens paths are made of.
PathTokens == {"/", "geosite", "geoip", ".json", "x"}

\* output_base_dir of main.
output_base_dir == <<"geo">>

\* Whether a token occurs in a path ('geosite' in json_path).
Contains(path, tok) == \E k \in 1..Len(path) : path[k] = tok

\* Index of the last "/" of a path, 0 when it has none.
LastSlash(path) ==
    LET at == {k \in 1..Len(path) : path[k] = "/"}
    IN  IF at = {} THEN 0 ELSE CHOOSE k \in at : \A j \in at : j <= k

\* os.path.basename and os.path.dirname.
basename(path) == SubSeq(path, LastSlash(path) + 1, Len(path))
dirname(path) == IF LastSlash(path) = 0 THEN <<>> ELSE SubSeq(path, 1, LastSlash(path) - 1)

\* str.replace(tok, ''): every occurrence of the token goes.
Replace(name, tok) == SelectSeq(name, LAMBDA t : t # tok)

\* str.endswith('.json').
EndsWithJson(name) == Len(name) > 0 /\ name[Len(name)] = ".json"

\* The routing of process_json_file: the output file of an input path.
OutputFile(json_path, base) ==
    LET filename == Replace(basename(json_path), ".json")
    IN  IF Contains(json_path, "geosite")
        THEN base \o <<"/", "geosite", "/", "site_">> \o filename \o <<".txt">>
        ELSE IF Contains(json_path, "geoip")
        THEN base \o <<"/", "geoip", "/", "ip_">> \o filename \o <<".txt">>
        ELSE base \o <<"/", "geosite", "/">> \o filename \o <<".txt">>

\* ----------------------------------------------------------- file system
\* What a path holds on disk.
Kinds == {"absent", "file", "dir"}

\* An output file: whether it exists, and its text.
AbsentFile == [exists |-> FALSE, data |-> <<>>]
FileOf(data) == [exists |-> TRUE, data |-> data]
OldData == <<"o", "l", "d">>

\* The files an archive can hold, relative to meta-rules-main/geo.
ArchivePaths ==
    { <<"geosite", "/", "x", ".json">>,
      <<"geosite", "/", "y", ".json">>,
      <<"geosite", "/", "sub", "/", "x", ".json">>,
      <<"geosite", "/", "x", ".txt">>,
      <<"geoip", "/", "x", ".json">>,
      <<"other", "/", "x", ".json">> }

\* The contents an archive file can have: no JSON, no rules, a null domain,
\* and a well-formed rule.
MainDocs ==
    { Doc("malformed", NoRule),
      Doc("no_rules", NoRule),
      RuleDoc(JNull, JAbsent, JAbsent),
      RuleDoc(JList(<< <<"a">> >>), JStr(<<"a">>), JAbsent) }

\* An archive: whether it has meta-rules-main/geo, and its files (path -> content).
NoArchive == [hasGeo |-> FALSE, files |-> <<>>]
Archives ==
    {NoArchive} \cup
    { [hasGeo |-> TRUE, files |-> f] :
        f \in UNION { [P -> MainDocs] :
                        P \in {Q \in SUBSET ArchivePaths : Cardinality(Q) <= MaxFiles} } }

\* os.path.join(root, file) for a file of the extracted tree.
JsonPath(rel) == <<"temp_extract", "/", "meta-rules-main", "/", "geo", "/">> \o rel

\* The output paths the run can write.
OutPaths == { OutputFile(JsonPath(rel), output_base_dir) : rel \in ArchivePaths }

\* os.makedirs(path, exist_ok=True): the path and every ancestor of it.
MakeDirs(path) ==
    {path} \cup { SubSeq(path, 1, k - 1) : k \in {j \in 1..Len(path) : path[j] = "/"} }

\* download_zip without the check of `file`'s output for "Zip archive data".
download_zip_unchecked(zip_kind) ==
    { [fault |-> "wget_missing", exc |-> "FileNotFoundError",
       zip_file |-> zip_kind, remote |-> NoArchive] }
    \cup
    IF zip_kind = "dir"
    THEN { [fault |-> "remove_failed", exc |-> "IsADirectoryError",
            zip_file |-> zip_kind, remote |-> NoArchive] }
    ELSE { [fault |-> "download_failed", exc |-> "CalledProcessError",
            zip_file |-> z, remote |-> NoArchive] : z \in {"absent", "file"} }
         \cup
         { [fault |-> "file_missing", exc |-> "FileNotFoundError",
            zip_file |-> "file", remote |-> NoArchive] }
         \cup
         { [fault |-> "not_zip", exc |-> "", zip_file |-> "file", remote |-> NoArchive] }
         \cup
         { [fault |-> "none", exc |-> "", zip_file |-> "file", remote |-> a] : a \in Archives }

\* download_zip: every way the call can end, given what meta-rules-main.zip
\* holds.  fault names what went wrong in the environment, exc the exception
\* that leaves the function.
download_zip(zip_kind) ==
    { [fault |-> "wget_missing", exc |-> "FileNotFoundError",
       zip_file |-> zip_kind, remote |-> NoArchive] }
    \cup
    IF zip_kind = "dir"
    THEN { [fault |-> "remove_failed", exc |-> "IsADirectoryError",
            zip_file |-> zip_kind, remote |-> NoArchive] }
    ELSE { [fault |-> "download_failed", exc |-> "CalledProcessError",
            zip_file |-> z, remote |-> NoArchive] : z \in {"absent", "file"} }
         \cup
         { [fault |-> "file_missing", exc |-> "FileNotFoundError",
            zip_file |-> "file", remote |-> NoArchive] }
         \cup
         { [fault |-> "not_zip", exc |-> "ValueError",
            zip_file |-> "file", remote |-> NoArchive] }
         \cup
         { [fault |-> "none", exc |-> "", zip_file |-> "file", remote |-> a] : a \in Archives }

\* extract_zip: every way the call can end, given what temp_extract holds.
extract_zip(temp_kind) ==
    { [fault |-> "unzip_missing", exc |-> "FileNotFoundError", temp_dir |-> temp_kind] }
    \cup
    IF temp_kind = "file"
    THEN { [fault |-> "rmtree_failed", exc |-> "NotADirectoryError", temp_dir |-> temp_kind] }
    ELSE { [fault |-> "extract_failed", exc |-> "CalledProcessError", temp_dir |-> t] :
             t \in {"absent", "dir"} }
         \cup
         { [fault |-> "none", exc |-> "", temp_dir |-> "dir"] }

\* save_to_file that reports success without writing the file.
save_to_file_unwritten(content, filename, d, o) ==
    LET made == d \cup MakeDirs(dirname(filename))
    IN  { [ok |-> FALSE, exc |-> "IOError", dirs |-> made, out |-> o],
          [ok |-> TRUE, exc |-> "", dirs |-> made, out |-> o] }

\* save_to_file: makedirs, open(filename, 'w'), write.  Each of the three can
\* fail (makedirs only when it has a directory to make); a failed write leaves
\* the file truncated to a proper prefix.
save_to_file(content, filename, d, o) ==
    LET made == d \cup MakeDirs(dirname(filename))
        cut == {<<>>, SubSeq(content, 1, Len(content) - 1)}
    IN  (IF made # d THEN { [ok |-> FALSE, exc |-> "IOError", dirs |-> d, out |-> o] } ELSE {})
        \cup
        { [ok |-> FALSE, exc |-> "IOError", dirs |-> made, out |-> o] }
        \cup
        { [ok |-> FALSE, exc |-> "IOError", dirs |-> made,
           out |-> [o EXCEPT ![filename] = FileOf(c)]] : c \in cut }
        \cup
        { [ok |-> TRUE, exc |-> "", dirs |-> made,
           out |-> [o EXCEPT ![filename] = FileOf(content)]] }

\* One call's record: the input, where it stopped ("none": nowhere), the
\* exception, whether the body ran to its return True, whether the exception
\* is still in flight, the output path, and the output tree afterwards.
Call(path, stage, exc, output, d, o) ==
    [json_path |-> path, stage |-> stage, exc |-> exc, ret |-> (stage = "none"),
     propagated |-> (stage # "none"), output_file |-> output, dirs |-> d, out |-> o]

\* The try body with the output file opened for writing before the input is
\* loaded.
Pipeline_open_first(path, content, d, o) ==
    LET loaded == load_json(content)
        extracted == extract_rules(loaded.val)
        formatted == format_to_payload(extracted.val)
        target == OutputFile(path, output_base_dir)
        made == d \cup MakeDirs(dirname(target))
        opened == [o EXCEPT ![target] = FileOf(<<>>)]
    IN  IF ~loaded.ok THEN {Call(path, "load", loaded.exc, <<>>, made, opened)}
        ELSE IF ~extracted.ok THEN {Call(path, "extract", extracted.exc, <<>>, made, opened)}
        ELSE IF ~formatted.ok THEN {Call(path, "format", formatted.exc, <<>>, made, opened)}
        ELSE { Call(path, IF s.ok THEN "none" ELSE "save", s.exc, target, s.dirs, s.out) :
                 s \in save_to_file(formatted.val, target, made, opened) }

\* The try body of process_json_file: load, extract, format, route, save.
\* doc is the content of json_path, d and o the output tree.
Pipeline(path, content, d, o) ==
    LET loaded == load_json(content)
        extracted == extract_rules(loaded.val)
        formatted == format_to_payload(extracted.val)
        target == OutputFile(path, output_base_dir)
    IN  IF ~loaded.ok THEN {Call(path, "load", loaded.exc, <<>>, d, o)}
        ELSE IF ~extracted.ok THEN {Call(path, "extract", extracted.exc, <<>>, d, o)}
        ELSE IF ~formatted.ok THEN {Call(path, "format", formatted.exc, <<>>, d, o)}
        ELSE { Call(path, IF s.ok THEN "none" ELSE "save", s.exc, target, s.dirs, s.out) :
                 s \in save_to_file(formatted.val, target, d, o) }

\* The exceptions the first except clause of process_json_file names.
NamedExceptions == {"JSONDecodeError", "KeyError", "IOError"}

\* process_json_file with the first except clause only.
process_json_file_named_only(path, content, d, o) ==
    { IF c.exc \in NamedExceptions THEN [c EXCEPT !.propagated = FALSE] ELSE c :
        c \in Pipeline(path, content, d, o) }

\* process_json_file: the try body under its two except clauses; the second
\* catches every Exception the first does not name, and both return False.
process_json_file(path, content, d, o) ==
    { [c EXCEPT !.propagated = FALSE] : c \in Pipeline(path, content, d, o) }

\* The .json files the walk of main finds under geosite and geoip.
Discovered(files) ==
    { rel \in DOMAIN files : rel[1] \in {"geosite", "geoip"} /\ EndsWithJson(basename(rel)) }

\* The walk's order: geosite before geoip, a directory's files before its
\* subdirectories'; otherwise as the file system lists them.
Rank(rel) == (IF rel[1] = "geoip" THEN 2 ELSE 0) + (IF LastSlash(rel) > 2 THEN 1 ELSE 0)
NextFiles(todo_set) == { rel \in todo_set : \A g \in todo_set : Rank(rel) <= Rank(g) }

\* The finally block of main: rmtree(temp_dir) if it exists, then
\* os.remove(zip_file) if it exists; the first call that raises ends it.
cleanup(temp_kind, zip_kind) ==
    IF temp_kind = "file"
    THEN [temp_dir |-> temp_kind, zip_file |-> zip_kind, raised |-> TRUE]
    ELSE IF zip_kind = "dir"
    THEN [temp_dir |-> "absent", zip_file |-> zip_kind, raised |-> TRUE]
    ELSE [temp_dir |-> "absent", zip_file |-> "absent", raised |-> FALSE]

\* ----------------------------------------------------------------- state
VARIABLES
    pc,              \* where the run is
    zip_file,        \* what meta-rules-main.zip holds on disk (a Kind)
    temp_dir,        \* what temp_extract holds on disk (a Kind)
    remote,          \* the archive the download fetched
    todo,            \* files of the walk not yet visited
    dirs,            \* the directories of the output tree
    out,             \* the files of the output tree: OutPaths -> file
    total_count,     \* main's counter of files found
    success_count,   \* main's counter of files converted
    log,             \* the calls of process_json_file so far, in order
    fault,           \* what went wrong in the download or extract stage
    caught,          \* the exception main's except clause caught ("": none)
    raised,          \* whether an exception left main
    dirs0, out0,     \* the output tree before the run
    doc,             \* SpecRules: the content of the file being converted
    json_data,       \* SpecRules: load_json's outcome
    rules,           \* SpecRules: extract_rules' outcome
    payload_content, \* SpecRules: format_to_payload's outcome
    payload_again,   \* SpecRules: the outcome of a second call on the same rules
    json_path,       \* SpecRoute: the input path
    output_file      \* SpecRoute: the output path chosen for it

mainVars == <<zip_file, temp_dir, remote, todo, dirs, out, total_count,
              success_count, log, fault, caught, raised, dirs0, out0>>
rulesVars == <<doc, json_data, rules, payload_content, payload_again>>
routeVars == <<json_path, output_file>>
vars == <<pc, mainVars, rulesVars, routeVars>>

EmptyTree == [p \in OutPaths |-> AbsentFile]
SiteX == <<"geo", "/", "geosite", "/", "site_", "x", ".txt">>

\* The output tree before the run: nothing, or geo/geosite/site_x.txt left
\* by an earlier run.
InitialTrees ==
    { [dirs |-> {}, out |-> EmptyTree],
      [dirs |-> MakeDirs(dirname(SiteX)), out |-> [EmptyTree EXCEPT ![SiteX] = FileOf(OldData)]] }

RulesIdle ==
    /\ doc = Doc("malformed", NoRule)
    /\ json_data = Raise("", Doc("malformed", NoRule))
    /\ rules = Raise("", NoRules)
    /\ payload_content = Raise("", <<>>)
    /\ payload_again = Raise("", <<>>)

RouteIdle == json_path = <<>> /\ output_file = <<>>

MainIdle ==
    /\ zip_file = "absent" /\ temp_dir = "absent" /\ remote = NoArchive
    /\ todo = {} /\ dirs = {} /\ out = EmptyTree
    /\ total_count = 0 /\ success_count = 0 /\ log = <<>>
    /\ fault = "none" /\ caught = "" /\ raised = FALSE
    /\ dirs0 = {} /\ out0 = EmptyTree

\* ------------------------------------------------------------ main()
\* The state when main starts: the disk holds anything at the two temporary
\* paths; the counters are not yet bound (0 here).
Init ==
    /\ pc = "download"
    /\ zip_file \in Kinds
    /\ temp_dir \in Kinds
    /\ \E t \in InitialTrees : dirs = t.dirs /\ out = t.out /\ dirs0 = t.dirs /\ out0 = t.out
    /\ remote = NoArchive /\ todo = {}
    /\ total_count = 0 /\ success_count = 0 /\ log = <<>>
    /\ fault = "none" /\ caught = "" /\ raised = FALSE
    /\ RulesIdle /\ RouteIdle

\* main: download_zip(zip_url, zip_file); an exception goes to the except
\* clause and from there to the finally block.
DownloadZip ==
    /\ pc = "download"
    /\ \E r \in download_zip(zip_file) :
         /\ zip_file' = r.zip_file
         /\ remote' = r.remote
         /\ fault' = r.fault
         /\ caught' = r.exc
         /\ pc' = IF r.exc = "" THEN "extract" ELSE "cleanup"
    /\ UNCHANGED <<temp_dir, todo, dirs, out, total_count, success_count, log, raised,
                   dirs0, out0, rulesVars, routeVars>>

\* main: extract_zip(zip_file, temp_dir).
ExtractZip ==
    /\ pc = "extract"
    /\ \E r \in extract_zip(temp_dir) :
         /\ temp_dir' = r.temp_dir
         /\ fault' = r.fault
         /\ caught' = r.exc
         /\ pc' = IF r.exc = "" THEN "check_geo" ELSE "cleanup"
    /\ UNCHANGED <<zip_file, remote, todo, dirs, out, total_count, success_count, log,
                   raised, dirs0, out0, rulesVars, routeVars>>

\* main: the geo directory must exist; then the counters start at 0 and the
\* walk begins.
CheckGeoDir ==
    /\ pc = "check_geo"
    /\ IF remote.hasGeo
       THEN /\ pc' = "walk"
            /\ todo' = Discovered(remote.files)
            /\ UNCHANGED <<fault, caught>>
       ELSE /\ pc' = "cleanup"
            /\ fault' = "no_geo_dir"
            /\ caught' = "FileNotFoundError"
            /\ UNCHANGED todo
    /\ total_count' = 0 /\ success_count' = 0
    /\ UNCHANGED <<zip_file, temp_dir, remote, dirs, out, log, raised, dirs0, out0,
                   rulesVars, routeVars>>

\* main: one iteration of the walk: count the file, call process_json_file,
\* count a success.  An exception that left the call would end the walk in
\* main's except clause.
ProcessJsonFile ==
    /\ pc = "walk"
    /\ \E rel \in NextFiles(todo) :
         \E c \in process_json_file(JsonPath(rel), remote.files[rel], dirs, out) :
            /\ todo' = todo \ {rel}
            /\ total_count' = total_count + 1
            /\ success_count' = IF c.ret THEN success_count + 1 ELSE success_count
            /\ log' = Append(log, [json_path |-> c.json_path, stage |-> c.stage,
                                   exc |-> c.exc, ret |-> c.ret,
                                   output_file |-> c.output_file])
            /\ dirs' = c.dirs
            /\ out' = c.out
            /\ pc' = IF c.propagated THEN "cleanup" ELSE "walk"
            /\ caught' = IF c.propagated THEN c.exc ELSE caught
    /\ UNCHANGED <<zip_file, temp_dir, remote, fault, raised, dirs0, out0,
                   rulesVars, routeVars>>

\* main: the walk is over; print the summary and fall into the finally block.
Report ==
    /\ pc = "walk"
    /\ todo = {}
    /\ pc' = "cleanup"
    /\ UNCHANGED <<zip_file, temp_dir, remote, todo, dirs, out, total_count, success_count,
                   log, fault, caught, raised, dirs0, out0, rulesVars, routeVars>>

\* main: the finally block.
Cleanup ==
    /\ pc = "cleanup"
    /\ LET r == cleanup(temp_dir, zip_file)
       IN  /\ temp_dir' = r.temp_dir
           /\ zip_file' = r.zip_file
           /\ raised' = r.raised
    /\ pc' = "done"
    /\ UNCHANGED <<remote, todo, dirs, out, total_count, success_count, log, fault, caught,
                   dirs0, out0, rulesVars, routeVars>>

Next == DownloadZip \/ ExtractZip \/ CheckGeoDir \/ ProcessJsonFile \/ Report \/ Cleanup

Spec == Init /\ [][Next]_vars

\* ------------------------------------- the conversion of one file's content
\* Every content a rule file can have.
Docs ==
    { Doc(k, NoRule) : k \in BadShapes }
      \cup { RuleDoc(d, s, i) : d \in FieldValues, s \in FieldValues, i \in FieldValues }

RulesInit ==
    /\ pc = "load"
    /\ doc \in Docs
    /\ json_data = Raise("", Doc("malformed", NoRule))
    /\ rules = Raise("", NoRules)
    /\ payload_content = Raise("", <<>>)
    /\ payload_again = Raise("", <<>>)
    /\ MainIdle /\ RouteIdle

\* process_json_file: json_data = load_json(json_path).
LoadJson ==
    /\ pc = "load"
    /\ json_data' = load_json(doc)
    /\ pc' = IF json_data'.ok THEN "extract_rules" ELSE "failed"
    /\ UNCHANGED <<doc, rules, payload_content, payload_again, mainVars, routeVars>>

\* process_json_file: rules = extract_rules(json_data).
ExtractRules ==
    /\ pc = "extract_rules"
    /\ rules' = extract_rules(json_data.val)
    /\ pc' = IF rules'.ok THEN "format" ELSE "failed"
    /\ UNCHANGED mainVars
    /\ UNCHANGED <<doc, json_data, payload_content, payload_again, routeVars>>

\* process_json_file: payload_content = format_to_payload(rules).
FormatToPayload ==
    /\ pc = "format"
    /\ payload_content' = format_to_payload(rules.val)
    /\ pc' = IF payload_content'.ok THEN "format_again" ELSE "failed"
    /\ UNCHANGED mainVars
    /\ UNCHANGED <<doc, json_data, rules, payload_again, routeVars>>

\* A second call of format_to_payload on the same rules.
FormatAgain ==
    /\ pc = "format_again"
    /\ payload_again' = format_to_payload(rules.val)
    /\ pc' = "formatted"
    /\ UNCHANGED mainVars
    /\ UNCHANGED <<doc, json_data, rules, payload_content, routeVars>>

RulesNext == LoadJson \/ ExtractRules \/ FormatToPayload \/ FormatAgain

SpecRules == RulesInit /\ [][RulesNext]_vars

\* ------------------------------------------------ the routing of one path
RouteInit ==
    /\ pc = "route"
    /\ json_path \in SeqUpTo(PathTokens, MaxPathLen)
    /\ output_file = <<>>
    /\ MainIdle /\ RulesIdle

\* process_json_file: the choice of output_file for json_path.
Route ==
    /\ pc = "route"
    /\ output_file' = OutputFile(json_path, output_base_dir)
    /\ pc' = "routed"
    /\ UNCHANGED <<json_path, rulesVars>>
    /\ UNCHANGED mainVars

RouteNext == Route

SpecRoute == RouteInit /\ [][RouteNext]_vars

\* ======================================================== claims: main()
\* The calls of process_json_file made so far.
Calls == 1..Len(log)
Succeeded == {k \in Calls : log[k].ret}
\* The walk of main has run to its end.
WalkOver == pc \in {"cleanup", "done"} /\ fault = "none"
\* The output files that exist.
Existing == {p \in OutPaths : out[p].exists}
\* Whether a file's content passes load, extract and format.
PipelineOK(content) ==
    /\ load_json(content).ok
    /\ extract_rules(load_json(content).val).ok
    /\ format_to_payload(extract_rules(load_json(content).val).val).ok
\* The files the walk finds, and those of them that are valid rule files.
Found == Discovered(remote.files)
Valid == {rel \in Found : PipelineOK(remote.files[rel])}
Routes(rels) == { OutputFile(JsonPath(rel), output_base_dir) : rel \in rels }

\* C1: when main has ended, neither temp_extract nor meta-rules-main.zip is
\* on disk, whatever the disk held before the run.
C1_NoTemporariesRemain ==
    pc = "done" => (temp_dir = "absent" /\ zip_file = "absent")

\* C2: a failure of any pipeline step is caught in process_json_file and
\* counted as a failure (the call returns False exactly when a step failed);
\* it never ends the walk; total_count counts the calls and success_count the
\* calls that returned True, so success_count <= total_count; and when the
\* walk is over every .json file under geosite and geoip has been processed.
C2_BatchContinues ==
    /\ success_count <= total_count
    /\ \A k \in Calls : log[k].ret <=> (log[k].stage = "none")
    /\ (pc = "walk" \/ WalkOver) =>
         /\ caught = ""
         /\ total_count = Len(log)
         /\ success_count = Cardinality({k \in Calls : log[k].stage = "none"})
    /\ WalkOver =>
         /\ total_count = Cardinality(Found)
         /\ {log[k].json_path : k \in Calls} = {JsonPath(rel) : rel \in Found}
\* C2's case: a call failed in format_to_payload and one in save_to_file,
\* each followed by a call that succeeded.
C2_FailureThenSuccess ==
    /\ pc = "done"
    /\ \E j, k \in Calls : j < k /\ log[j].stage = "format" /\ log[k].ret
    /\ \E j, k \in Calls : j < k /\ log[j].stage = "save" /\ log[k].ret
    /\ success_count < total_count

\* C3 as amended: from an empty output directory, a run over k valid and m
\* malformed files reports total k+m and a success count of at most k, which
\* is k when no write fails; the output files are then exactly the routed
\* output paths of the valid files.  In every case each converted file's
\* output exists and the output files are among the routed paths of the
\* valid files, so there are at most k: fewer than k when two valid files
\* route to the same output path.
C3_OutputsAreRoutedPaths ==
    (WalkOver /\ dirs0 = {}) =>
        /\ total_count = Cardinality(Found)
        /\ success_count <= Cardinality(Valid)
        /\ (\A k \in Calls : log[k].stage # "save") => success_count = Cardinality(Valid)
        /\ Routes({rel \in Found : \E k \in Succeeded : log[k].json_path = JsonPath(rel)})
             \subseteq Existing
        /\ Existing \subseteq Routes(Valid)
        /\ success_count = Cardinality(Valid) => Existing = Routes(Valid)
        /\ Cardinality(Existing) <= Cardinality(Valid)
\* C3's case: two valid files, both converted, share one output path.
C3_TwoFilesOneOutput ==
    /\ pc = "done" /\ fault = "none" /\ dirs0 = {}
    /\ success_count = Cardinality(Valid)
    /\ success_count = 2
    /\ Cardinality(Existing) = 1
\* C3 as stated, for runs in which no write fails: the run reports k of k+m
\* and the number of output files equals the success count.
C3_OneOutputPerSuccess ==
    (WalkOver /\ dirs0 = {} /\ \A k \in Calls : log[k].stage # "save") =>
        /\ total_count = Cardinality(Found)
        /\ success_count = Cardinality(Valid)
        /\ Cardinality(Existing) = success_count

\* The faults of the download and extract stage.
FatalFaults ==
    {"wget_missing", "remove_failed", "download_failed", "file_missing", "not_zip",
     "unzip_missing", "rmtree_failed", "extract_failed", "no_geo_dir"}

\* C8: a fatal fault of the download or extract stage ends the run before
\* any file is processed: main's except clause has caught the exception, no
\* call of process_json_file was made, the output tree is as it was before
\* the run, and the run is in its finally block or past it.
C8_FatalAbortsBeforeProcessing ==
    fault # "none" =>
        /\ fault \in FatalFaults
        /\ caught # ""
        /\ pc \in {"cleanup", "done"}
        /\ pc = "cleanup" => ENABLED Cleanup
        /\ log = <<>> /\ total_count = 0 /\ success_count = 0
        /\ out = out0 /\ dirs = dirs0
\* C8's case: the download was no ZIP archive; the run ended with the
\* ValueError caught, the download removed and the earlier output in place.
C8_AbortedAndCleaned ==
    /\ pc = "done"
    /\ fault = "not_zip"
    /\ caught = "ValueError"
    /\ zip_file = "absent"
    /\ out0[SiteX].exists

\* C10 as amended: a call of process_json_file that returns False because
\* load_json, extract_rules or format_to_payload failed leaves the output
\* tree exactly as it was; one that returns False because save_to_file
\* failed can have created the output file's directories and created or
\* truncated that one output file, and leaves every other output file as it
\* was; the finally block does not touch the output tree.
C10_FailedCallFrame ==
    [][ /\ (pc = "walk" /\ Len(log') = Len(log) + 1 /\ ~log'[Len(log')].ret) =>
            /\ log'[Len(log')].stage # "save" => (out' = out /\ dirs' = dirs)
            /\ dirs \subseteq dirs'
            /\ \A p \in OutPaths \ {log'[Len(log')].output_file} : out'[p] = out[p]
        /\ pc = "cleanup" => (out' = out /\ dirs' = dirs) ]_vars
\* C10's case: a failed save has truncated the file an earlier call wrote.
C10_FailedSaveTruncated ==
    /\ Len(log) = 2
    /\ log[1].ret /\ ~log[2].ret /\ log[2].stage = "save"
    /\ log[1].output_file = log[2].output_file
    /\ out[log[2].output_file] = FileOf(<<>>)
\* C10 as stated: a call that returns False leaves the output tree exactly
\* as it was before the call.
C10_FailedCallChangesNothing ==
    [][ (pc = "walk" /\ Len(log') = Len(log) + 1 /\ ~log'[Len(log')].ret) =>
            (out' = out /\ dirs' = dirs) ]_vars

\* ============================================ claims: the conversion
\* format_to_payload has returned a payload.
Formatted == pc \in {"format_again", "formatted"}
\* A field of a RuleSet that is a non-empty sequence of strings.
NonEmptyList(x) == x.t = "list" /\ Len(x.v) > 0
\* The RuleSet has non-empty domain, domain_suffix and ip_cidr.
AllNonEmpty ==
    /\ NonEmptyList(rules.val.domain)
    /\ NonEmptyList(rules.val.domain_suffix)
    /\ NonEmptyList(rules.val.ip_cidr)
Entries == Len(rules.val.domain.v) + Len(rules.val.domain_suffix.v) + Len(rules.val.ip_cidr.v)
\* The line breaks inside the entries of a list.
RECURSIVE BreaksIn(_)
BreaksIn(entries) ==
    IF entries = <<>> THEN 0 ELSE CountNL(Head(entries)) + BreaksIn(Tail(entries))
EmbeddedBreaks ==
    BreaksIn(rules.val.domain.v) + BreaksIn(rules.val.domain_suffix.v)
      + BreaksIn(rules.val.ip_cidr.v)

\* C5 as amended: for a RuleSet with non-empty domain, domain_suffix and
\* ip_cidr the payload starts with the line "payload:" and has exactly
\* len(domain)+len(domain_suffix)+len(ip_cidr)+1 lines plus one line for
\* every line break inside a value: exactly that sum plus 1 when no value
\* contains a line break.
C5_LineCountWithBreaks ==
    (Formatted /\ AllNonEmpty) =>
        /\ payload_content.ok
        /\ FirstLine(payload_content.val) = PayloadHeader
        /\ LineCount(payload_content.val) = Entries + 1 + EmbeddedBreaks
\* C5's case: three entries, one of them "b\nc": five lines.
C5_ValueWithBreak ==
    /\ pc = "formatted" /\ AllNonEmpty
    /\ rules.val.domain.v = << <<"b", NL, "c">> >>
    /\ Entries = 3
    /\ LineCount(payload_content.val) = 5
\* C5 as stated: exactly len(domain)+len(domain_suffix)+len(ip_cidr)+1 lines.
C5_LineCount ==
    (Formatted /\ AllNonEmpty) =>
        /\ FirstLine(payload_content.val) = PayloadHeader
        /\ LineCount(payload_content.val) = Entries + 1

\* The text of the entries, each on a line of its own after what precedes.
RECURSIVE Rendered(_, _)
Rendered(entries, mark) ==
    IF entries = <<>> THEN <<>>
    ELSE <<NL>> \o ItemOpen \o mark \o Head(entries) \o ItemClose \o Rendered(Tail(entries), mark)

WithSuffix(suffix) == RuleDoc(doc.rule.domain, suffix, doc.rule.ip_cidr)
PayloadOf(content) == format_to_payload(extract_rules(load_json(content).val).val)

\* C7: extract_rules succeeds on every rule object; a bare string s as
\* domain_suffix becomes the list [s] and gives the payload that [s] gives; a
\* list is used as it is; an absent, null or otherwise typed domain_suffix
\* becomes the empty list and gives the payload an empty list gives.
C7_SuffixNormalization ==
    (doc.kind = "ok" /\ pc \in {"format", "format_again", "formatted", "failed"}) =>
        LET raw == doc.rule.domain_suffix
        IN  /\ rules.ok
            /\ raw.t = "str" => rules.val.domain_suffix = JList(<<raw.v>>)
            /\ raw.t = "list" => rules.val.domain_suffix = raw
            /\ raw.t \notin {"str", "list"} => rules.val.domain_suffix = JList(<<>>)
            /\ (Formatted /\ raw.t = "str") =>
                  payload_content = PayloadOf(WithSuffix(JList(<<raw.v>>)))
            /\ (Formatted /\ raw.t \notin {"str", "list"}) =>
                  payload_content = PayloadOf(WithSuffix(JList(<<>>)))
\* C7's case: a bare string as domain_suffix has been extracted and
\* formatted.
C7_BareStringSuffix ==
    /\ pc = "formatted"
    /\ doc.rule.domain_suffix = JStr(<<"b", NL, "c">>)
    /\ doc.rule.domain = JList(<< <<"a">> >>)
    /\ payload_content.ok

\* The characters of a str, as a list of one-character strings.
Chars(x) == JList([k \in 1..Len(x.v) |-> <<x.v[k]>>])

\* C9 as amended: extract_rules gives domain and ip_cidr the empty list when
\* the key is absent and the value unchanged when it is present;
\* format_to_payload then iterates the value: a bare string gives one entry
\* per character and an object one per key, while null, a number or a
\* boolean raises TypeError, so that file's pipeline fails.
C9_PassThroughThenIterate ==
    (doc.kind = "ok" /\ pc \in {"format", "format_again", "formatted", "failed"}) =>
        LET d == doc.rule.domain
            i == doc.rule.ip_cidr
        IN  /\ rules.ok
            /\ rules.val.domain = (IF d.t = "absent" THEN JList(<<>>) ELSE d)
            /\ rules.val.ip_cidr = (IF i.t = "absent" THEN JList(<<>>) ELSE i)
            /\ pc # "format" =>
                  (pc = "failed" <=>
                     (d.t \in {"null", "num", "bool"} \/ i.t \in {"null", "num", "bool"}))
            /\ (Formatted /\ d.t = "str") =>
                  payload_content = PayloadOf(RuleDoc(Chars(d), doc.rule.domain_suffix, i))
            /\ (Formatted /\ d.t = "obj") =>
                  payload_content = PayloadOf(RuleDoc(JList(d.v), doc.rule.domain_suffix, i))
\* C9's case: a null domain passed extract_rules unchanged and
\* format_to_payload raised.
C9_NullDomainFails ==
    /\ pc = "failed"
    /\ doc.kind = "ok"
    /\ doc.rule.domain = JNull
    /\ doc.rule.ip_cidr = JList(<< <<"a">> >>)
    /\ rules.ok /\ rules.val.domain = JNull
\* C9 as stated: whatever domain and ip_cidr hold, the pipeline completes.
C9_MalformedFieldsNeverFail ==
    doc.kind = "ok" => pc # "failed"

\* ================================================= claims: the routing
\* A base name with its .json extension removed.
WithoutExtension(name) ==
    IF EndsWithJson(name) THEN SubSeq(name, 1, Len(name) - 1) ELSE name

\* C4: a path containing geosite goes to geo/geosite/site_<name>.txt, one
\* containing geoip to geo/geoip/ip_<name>.txt, and any other to
\* geo/geosite/<name>.txt, <name> being the base name without its .json
\* extension.  Stated for the paths main passes (they end in .json), with
\* geosite taking precedence when a path contains both markers.
C4_Routing ==
    (pc = "routed" /\ EndsWithJson(json_path)) =>
        LET name == WithoutExtension(basename(json_path))
        IN  /\ Contains(json_path, "geosite") =>
                 output_file = <<"geo", "/", "geosite", "/", "site_">> \o name \o <<".txt">>
            /\ (Contains(json_path, "geoip") /\ ~Contains(json_path, "geosite")) =>
                 output_file = <<"geo", "/", "geoip", "/", "ip_">> \o name \o <<".txt">>
            /\ (~Contains(json_path, "geosite") /\ ~Contains(json_path, "geoip")) =>
                 output_file = <<"geo", "/", "geosite", "/">> \o name \o <<".txt">>

====
